---- MODULE Spec2Model ----
(***************************************************************************)
(* A model of clcache.py, a compiler cache for Microsoft Visual Studio.    *)
(*                                                                         *)
(* Strings are sequences of one-character strings, so that the indexing    *)
(* and slicing the code does on command-line tokens (arg[0], arg[1:3],     *)
(* arg[3:]) is modelled character by character.  Python's None is the      *)
(* value None below, which is no string.                                   *)
(***************************************************************************)
EXTENDS Integers, Sequences, FiniteSets, TLC

\* ------------------------------------------------------------------------
\* Python values and string helpers
\* ------------------------------------------------------------------------

None == <<"None">>

\* Python truthiness of a value that is None or a string.
Truthy(x) == x # None /\ x # <<>>

\* s[a:] for a 0-based index a.
SliceFrom(s, a) == SubSeq(s, a + 1, Len(s))

\* s[a:b] for 0-based indexes a <= b.
Slice(s, a, b) == SubSeq(s, a + 1, IF b < Len(s) THEN b ELSE Len(s))

\* s.startswith(prefix)
StartsWith(s, prefix) == Len(s) >= Len(prefix) /\ SubSeq(s, 1, Len(prefix)) = prefix

\* s.startswith(tuple of prefixes)
StartsWithAny(s, prefixes) == \E i \in 1..Len(prefixes) : StartsWith(s, prefixes[i])

DigitChars == <<"0", "1", "2", "3", "4", "5", "6", "7", "8", "9">>

\* str(n) of a non-negative integer.
RECURSIVE StrInt(_)
StrInt(n) == IF n < 10 THEN <<DigitChars[n + 1]>>
             ELSE StrInt(n \div 10) \o <<DigitChars[(n % 10) + 1]>>

\* str(x) of a non-negative float with at most two decimals, x given in
\* hundredths: str(1.5) = "1.5", str(1.51) = "1.51", str(2.0) = "2.0".
StrFloat(h) ==
    LET whole == h \div 100
        frac  == h % 100
    IN  StrInt(whole) \o <<".">> \o
        (IF frac % 10 = 0 THEN <<DigitChars[(frac \div 10) + 1]>>
         ELSE <<DigitChars[(frac \div 10) + 1], DigitChars[(frac % 10) + 1]>>)

\* sep.join(list)
RECURSIVE Join(_, _)
Join(sep, list) ==
    IF list = <<>> THEN <<>>
    ELSE IF Len(list) = 1 THEN list[1]
    ELSE list[1] \o sep \o Join(sep, Tail(list))

\* The position of the last element of s that is in chars, 0 when none is.
RECURSIVE LastIndexOf(_, _)
LastIndexOf(s, chars) ==
    IF s = <<>> THEN 0
    ELSE IF s[Len(s)] \in chars THEN Len(s)
    ELSE LastIndexOf(SubSeq(s, 1, Len(s) - 1), chars)

\* os.path.basename on Windows: what follows the last slash or backslash.
Basename(p) == SubSeq(p, LastIndexOf(p, {"/", "\\"}) + 1, Len(p))

\* os.path.splitext(name)[0] for a name without directory part: the name up
\* to its last dot, unless that dot is the leading character.
SplitextRoot(name) ==
    LET d == LastIndexOf(name, {"."})
    IN  IF d > 1 THEN SubSeq(name, 1, d - 1) ELSE name

\* os.getcwd()
Cwd == <<"w">>

\* os.path.join(a, b) for a relative b.
PathJoin(a, b) == a \o <<"\\">> \o b

\* ------------------------------------------------------------------------
\* analyzeCommandLine
\* ------------------------------------------------------------------------

AnalysisOk == "Ok"
AnalysisNoSourceFile == "NoSourceFile"
AnalysisMultipleSourceFiles == "MultipleSourceFiles"
AnalysisCalledForLink == "CalledForLink"
\* arg[0] of an empty token or arg[1] of a one-character switch raises.
RaisedIndexError == "IndexError"

AnalysisReturn(r, src, out) == [result |-> r, sourceFile |-> src, outputFile |-> out]

\* The statements after the loop of analyzeCommandLine.
AnalyzeAfterLoop(found, sourceFile, outputFile) ==
    LET out == IF ~Truthy(outputFile) /\ Truthy(sourceFile)
               THEN PathJoin(Cwd, SplitextRoot(Basename(sourceFile)) \o <<".", "o", "b", "j">>)
               ELSE outputFile
    IN  IF ~found THEN AnalysisReturn(AnalysisCalledForLink, None, None)
        ELSE IF sourceFile = <<>> THEN AnalysisReturn(AnalysisNoSourceFile, None, None)
        ELSE AnalysisReturn(AnalysisOk, sourceFile, out)

\* The loop of analyzeCommandLine over cmdline[1:], from position i (1-based).
RECURSIVE AnalyzeLoop(_, _, _, _, _)
AnalyzeLoop(cmdline, i, found, sourceFile, outputFile) ==
    IF i > Len(cmdline) THEN AnalyzeAfterLoop(found, sourceFile, outputFile)
    ELSE LET arg == cmdline[i] IN
      IF arg = <<>> THEN AnalysisReturn(RaisedIndexError, None, None)
      ELSE IF arg[1] = "/" \/ arg[1] = "-" THEN
        IF SliceFrom(arg, 1) = <<"l", "i", "n", "k">>
          THEN AnalysisReturn(AnalysisCalledForLink, None, None)
        ELSE IF Len(arg) < 2 THEN AnalysisReturn(RaisedIndexError, None, None)
        ELSE IF arg[2] = "c"
          THEN AnalyzeLoop(cmdline, i + 1, TRUE, sourceFile, outputFile)
        ELSE IF Slice(arg, 1, 3) = <<"F", "o">>
          THEN AnalyzeLoop(cmdline, i + 1, found, sourceFile, SliceFrom(arg, 3))
        ELSE IF Slice(arg, 1, 3) \in {<<"T", "p">>, <<"T", "c">>}
          THEN AnalyzeLoop(cmdline, i + 1, found, SliceFrom(arg, 3), outputFile)
        ELSE AnalyzeLoop(cmdline, i + 1, found, sourceFile, outputFile)
      ELSE IF arg[1] = "@"
        THEN AnalysisReturn(AnalysisMultipleSourceFiles, None, None)
      ELSE IF Truthy(sourceFile)
        THEN AnalysisReturn(AnalysisMultipleSourceFiles, None, None)
      ELSE AnalyzeLoop(cmdline, i + 1, found, arg, outputFile)

\* analyzeCommandLine(cmdline): cmdline[0] is skipped.
analyzeCommandLine(cmdline) == AnalyzeLoop(cmdline, 2, FALSE, None, None)

\* ------------------------------------------------------------------------
\* ObjectCache._normalizedCommandLine and ObjectCache.computeKey
\* ------------------------------------------------------------------------

\* The strip list when the output-file switch is not appended to it.
argsToStripWithoutFo ==
    << <<"A", "I">>, <<"C">>, <<"E">>, <<"P">>, <<"F", "I">>, <<"u">>, <<"X">>,
       <<"F", "U">>, <<"D">>, <<"E", "P">>, <<"F", "x">>, <<"U">>, <<"I">> >>

\* _argsToStrip, with the output-file switch appended.
argsToStrip ==
    << <<"A", "I">>, <<"C">>, <<"E">>, <<"P">>, <<"F", "I">>, <<"u">>, <<"X">>,
       <<"F", "U">>, <<"D">>, <<"E", "P">>, <<"F", "x">>, <<"U">>, <<"I">>,
       <<"F", "o">> >>

\* The filter of _normalizedCommandLine: whether arg stays.
KeptByNormalize(arg) ==
    ~(arg[1] \in {"/", "-"} /\ StartsWithAny(SliceFrom(arg, 1), argsToStrip))

\* [arg for arg in cmdline if not (arg[0] in "/-" and arg[1:].startswith(...))]
RECURSIVE _normalizedCommandLine(_)
_normalizedCommandLine(cmdline) ==
    IF cmdline = <<>> THEN <<>>
    ELSE IF KeptByNormalize(cmdline[1])
      THEN <<cmdline[1]>> \o _normalizedCommandLine(Tail(cmdline))
    ELSE _normalizedCommandLine(Tail(cmdline))

\* The bytes computeKey feeds to sha1, in order: str(st_mtime), str(st_size),
\* the normalized command line joined by a space, the preprocessed source.
HashInput(stat, commandLine, preprocessedSourceCode) ==
    StrFloat(stat.st_mtime) \o StrInt(stat.st_size)
      \o Join(<<" ">>, _normalizedCommandLine(Tail(commandLine)))
      \o preprocessedSourceCode

\* sha1(...).hexdigest(), taken as injective: the digest stands for its input.
Sha1Hexdigest(bytes) == bytes

\* computeKey, given what os.stat(compilerBinary) and the preprocessor return.
computeKey(stat, commandLine, preprocessedSourceCode) ==
    Sha1Hexdigest(HashInput(stat, commandLine, preprocessedSourceCode))

\* [arg for arg in args if not arg in ("-c", "/c")]
RECURSIVE WithoutCompileOnly(_)
WithoutCompileOnly(args) ==
    IF args = <<>> THEN <<>>
    ELSE IF args[1] \in {<<"-", "c">>, <<"/", "c">>} THEN WithoutCompileOnly(Tail(args))
    ELSE <<args[1]>> \o WithoutCompileOnly(Tail(args))

\* ppcmd[1:], the arguments computeKey hands to the preprocessor.
PreprocessorCommand(commandLine) ==
    <<<<"/", "E", "P">>>> \o WithoutCompileOnly(Tail(commandLine))

\* ------------------------------------------------------------------------
\* expandCommandLine
\* ------------------------------------------------------------------------

\* The response files of the build directory: file name -> its tokens
\* (includeFileContents.split()).  The command lines of the model name no
\* other file, for which codecs.open would raise.
ResponseFileTokens(name) ==
    IF name = <<"r">> THEN << <<"/", "c">>, <<"a", ".", "c">> >> ELSE <<>>

\* expandCommandLine: a token starting with @ is replaced by the expansion of
\* the tokens of the file it names.  depth bounds the recursion of the model.
RECURSIVE ExpandLoop(_, _)
ExpandLoop(cmdline, depth) ==
    IF cmdline = <<>> THEN <<>>
    ELSE LET arg == cmdline[1] IN
      IF arg # <<>> /\ arg[1] = "@" /\ depth > 0
        THEN ExpandLoop(ResponseFileTokens(SliceFrom(arg, 1)), depth - 1)
               \o ExpandLoop(Tail(cmdline), depth)
      ELSE <<arg>> \o ExpandLoop(Tail(cmdline), depth)

expandCommandLine(cmdline) == ExpandLoop(cmdline, 2)

\* ------------------------------------------------------------------------
\* Text-mode file I/O of the Windows C runtime, as used by open(name, 'w')
\* and open(name, 'r')
\* ------------------------------------------------------------------------

\* file.write(text) in text mode: every "\n" is stored as "\r\n".
RECURSIVE TextModeWrite(_)
TextModeWrite(text) ==
    IF text = <<>> THEN <<>>
    ELSE IF text[1] = "\n" THEN <<"\r", "\n">> \o TextModeWrite(Tail(text))
    ELSE <<text[1]>> \o TextModeWrite(Tail(text))

\* file.read() in text mode: every stored "\r\n" is returned as "\n".
RECURSIVE TextModeRead(_)
TextModeRead(bytes) ==
    IF bytes = <<>> THEN <<>>
    ELSE IF Len(bytes) >= 2 /\ bytes[1] = "\r" /\ bytes[2] = "\n"
      THEN <<"\n">> \o TextModeRead(SubSeq(bytes, 3, Len(bytes)))
    ELSE <<bytes[1]>> \o TextModeRead(Tail(bytes))

\* ------------------------------------------------------------------------
\* ObjectCache: the entry directories on disk
\*
\* A store is [dirs, atime]: dirs maps the path of each existing entry
\* directory to its two files (None: the file does not exist), atime lists the
\* paths that hold an object file, least recently accessed first.
\* ------------------------------------------------------------------------

EmptyStore == [dirs |-> <<>>, atime |-> <<>>]

\* The entry directory when the key is left out of the path.
ShardDirOnly(key) == <<Slice(key, 0, 2)>>

\* os.path.join(self.dir, key[:2], key), relative to the cache directory.
_cacheEntryDir(key) == <<Slice(key, 0, 2), key>>

\* The object file of the entry at path is there.
ObjectExists(store, path) ==
    path \in DOMAIN store.dirs /\ store.dirs[path].object # None

\* os.path.exists(self.cachedObjectName(key))
hasEntry(store, key) == ObjectExists(store, _cacheEntryDir(key))

RECURSIVE SeqWithout(_, _)
SeqWithout(seq, x) ==
    IF seq = <<>> THEN <<>>
    ELSE IF seq[1] = x THEN SeqWithout(Tail(seq), x)
    ELSE <<seq[1]>> \o SeqWithout(Tail(seq), x)

\* The access time of the object at path becomes the newest.
Touch(atime, path) == SeqWithout(atime, path) \o <<path>>

\* setEntry, first part: makedirs of the entry directory when it is missing,
\* then copyfile(objectFileName, cachedObjectName(key)).
SetEntryObject(store, key, object) ==
    LET path == _cacheEntryDir(key)
        old  == IF path \in DOMAIN store.dirs THEN store.dirs[path].output ELSE None
    IN  [dirs  |-> [q \in DOMAIN store.dirs \cup {path} |->
                      IF q = path THEN [object |-> object, output |-> old]
                      ELSE store.dirs[q]],
         atime |-> Touch(store.atime, path)]

\* setEntry, second part: open(output.txt, 'w').write(compilerOutput).  The
\* caller checks that the directory is still there.
SetEntryOutput(store, key, compilerOutput) ==
    [store EXCEPT !.dirs[_cacheEntryDir(key)].output = TextModeWrite(compilerOutput)]

\* setEntry as a whole, with no other process in between.
setEntry(store, key, object, compilerOutput) ==
    SetEntryOutput(SetEntryObject(store, key, object), key, compilerOutput)

\* open(output.txt, 'r').read()
cachedCompilerOutput(store, key) == TextModeRead(store.dirs[_cacheEntryDir(key)].output)

\* The bytes of the file cachedObjectName(key).
cachedObject(store, key) == store.dirs[_cacheEntryDir(key)].object

\* rmtree of the entry directory at path.
RemoveTree(store, path) ==
    [dirs  |-> [q \in DOMAIN store.dirs \ {path} |-> store.dirs[q]],
     atime |-> SeqWithout(store.atime, path)]

\* os.stat(fn).st_size of the object at path.
ObjectSize(store, path) == Len(store.dirs[path].object)

RECURSIVE SeqReverse(_)
SeqReverse(seq) ==
    IF seq = <<>> THEN <<>> ELSE SeqReverse(Tail(seq)) \o <<seq[1]>>

\* objectInfos of clean after its sort: (st_size, entry directory) of every
\* object file found by os.walk, by st_atime with reverse=True.
RECURSIVE WithSizes(_, _)
WithSizes(store, paths) ==
    IF paths = <<>> THEN <<>>
    ELSE <<[size |-> ObjectSize(store, paths[1]), path |-> paths[1]]>>
           \o WithSizes(store, Tail(paths))

ObjectInfos(store) == WithSizes(store, SeqReverse(store.atime))

\* The total size of the object files on disk.
RECURSIVE SumSizes(_)
SumSizes(infos) ==
    IF infos = <<>> THEN 0 ELSE infos[1].size + SumSizes(Tail(infos))

DiskSize(store) == SumSizes(ObjectInfos(store))

\* ------------------------------------------------------------------------
\* PersistentJSONDict, CacheStatistics, Configuration
\*
\* A file is [state, doc]: state "missing" (no file), "ok" (doc is the JSON
\* document stored).  A dictionary is a function from its keys.
\* ------------------------------------------------------------------------

EmptyDict == <<>>

MissingFile == [state |-> "missing", doc |-> EmptyDict]

\* The load when it keeps what was read before the error.
LoadDictLenient(file) == file.doc

\* PersistentJSONDict.__init__: json.load of the file, {} when that raises.
LoadDict(file) == IF file.state = "ok" THEN file.doc ELSE EmptyDict

\* json.dump(self._dict, open(self._fileName, 'w'))
DumpDict(dict) == [state |-> "ok", doc |-> dict]

StatsKeys ==
    {"CallsWithoutSourceFile", "CallsWithMultipleSourceFiles", "CallsForLinking",
     "CacheEntries", "CacheSize", "CacheHits", "CacheMisses"}

\* CacheStatistics.__init__: every missing counter is set to 0.
StatsWithDefaults(dict) ==
    [k \in StatsKeys |-> IF k \in DOMAIN dict THEN dict[k] ELSE 0]

\* The dirty flag after CacheStatistics.__init__: a default was written.
StatsDirtyAfterInit(dict) == \E k \in StatsKeys : k \notin DOMAIN dict

\* The increment when it adds two.
RegisterTwice(stats, k) == [stats EXCEPT ![k] = @ + 2]

\* self._stats[k] += 1
Register(stats, k) == [stats EXCEPT ![k] = @ + 1]

\* registerCacheEntry(size)
registerCacheEntry(stats, size) ==
    [stats EXCEPT !["CacheEntries"] = @ + 1, !["CacheSize"] = @ + size]

\* setCacheSize(size)
setCacheSize(stats, size) == [stats EXCEPT !["CacheSize"] = size]

\* Configuration._defaultValues["MaximumCacheSize"] = 1024 * 1024 * 1000
DefaultMaximumCacheSize == 1048576000

\* Configuration.__init__ followed by maximumCacheSize().
maximumCacheSize(file) ==
    LET dict == LoadDict(file)
    IN  IF "MaximumCacheSize" \in DOMAIN dict THEN dict["MaximumCacheSize"]
        ELSE DefaultMaximumCacheSize

\* The order in which json.dump writes the keys of a document: the iteration
\* order of the dictionary, the same for every document with the same keys.
KeyOrder ==
    <<"CacheHits", "CacheSize", "CacheMisses", "CallsForLinking", "CacheEntries",
      "CallsWithoutSourceFile", "CallsWithMultipleSourceFiles", "MaximumCacheSize">>

\* The text of a file is a sequence of characters, a key name standing as
\* one element for its characters.
RECURSIVE JsonMembers(_, _)
JsonMembers(dict, keys) ==
    IF keys = <<>> THEN <<>>
    ELSE <<"\"", keys[1], "\"", ":", " ">> \o StrInt(dict[keys[1]])
           \o (IF Len(keys) > 1 THEN <<",", " ">> ELSE <<>>)
           \o JsonMembers(dict, Tail(keys))

\* json.dump(dict, file) of a document of counters.
JsonDump(dict) ==
    <<"{">> \o JsonMembers(dict, SelectSeq(KeyOrder, LAMBDA k : k \in DOMAIN dict))
            \o <<"}">>

IsDigit(c) == \E n \in 1..10 : DigitChars[n] = c

DigitValue(c) == CHOOSE n \in 0..9 : DigitChars[n + 1] = c

\* The first position from i on that holds no blank.
RECURSIVE SkipSpace(_, _)
SkipSpace(text, i) ==
    IF i <= Len(text) /\ text[i] = " " THEN SkipSpace(text, i + 1) ELSE i

RECURSIVE ParseDigits(_, _, _)
ParseDigits(text, i, acc) ==
    IF i <= Len(text) /\ IsDigit(text[i])
      THEN ParseDigits(text, i + 1, acc * 10 + DigitValue(text[i]))
    ELSE [next |-> i, value |-> acc]

\* A JSON integer at position i: a lone 0, or digits with no leading 0.
ParseNumber(text, i) ==
    IF text[i] = "0" THEN [next |-> i + 1, value |-> 0] ELSE ParseDigits(text, i, 0)

\* The decoder stops with ValueError; doc is what it had read by then.
JsonError(doc) == [ok |-> FALSE, doc |-> doc]

\* The members of an object from position i, the opening quote of a key.
RECURSIVE ParseMembers(_, _, _)
ParseMembers(text, i, doc) ==
    IF i + 2 > Len(text) \/ text[i] # "\"" \/ text[i + 2] # "\"" THEN JsonError(doc)
    ELSE LET key   == text[i + 1]
             colon == SkipSpace(text, i + 3)
         IN
      IF colon > Len(text) \/ text[colon] # ":" THEN JsonError(doc)
      ELSE LET v == SkipSpace(text, colon + 1) IN
        IF v > Len(text) \/ ~IsDigit(text[v]) THEN JsonError(doc)
        ELSE LET num  == ParseNumber(text, v)
                 doc2 == [k \in DOMAIN doc \cup {key} |->
                            IF k = key THEN num.value ELSE doc[k]]
                 e    == SkipSpace(text, num.next)
             IN
          IF e > Len(text) THEN JsonError(doc2)
          ELSE IF text[e] = "}"
            THEN IF SkipSpace(text, e + 1) > Len(text) THEN [ok |-> TRUE, doc |-> doc2]
                 ELSE JsonError(doc2)
          ELSE IF text[e] = ","
            THEN ParseMembers(text, SkipSpace(text, e + 1), doc2)
          ELSE JsonError(doc2)

\* json.load(file) on the text of a file: the document, or ValueError for a
\* text that is no JSON object of counters followed by nothing.
JsonLoad(text) ==
    LET b == SkipSpace(text, 1) IN
    IF b > Len(text) \/ text[b] # "{" THEN JsonError(EmptyDict)
    ELSE LET m == SkipSpace(text, b + 1) IN
      IF m <= Len(text) /\ text[m] = "}"
        THEN IF SkipSpace(text, m + 1) > Len(text) THEN [ok |-> TRUE, doc |-> EmptyDict]
             ELSE JsonError(EmptyDict)
      ELSE ParseMembers(text, m, EmptyDict)

\* The text of a file that does not exist (open raises IOError).
NoFile == <<"NoFile">>

\* The file as PersistentJSONDict.__init__ meets it, from its text.
FileOf(text) ==
    IF text = NoFile THEN MissingFile
    ELSE LET r == JsonLoad(text)
         IN  [state |-> IF r.ok THEN "ok" ELSE "malformed", doc |-> r.doc]

\* The counter the main flow increments for a classification other than Ok.
CounterOf(result) ==
    IF result = AnalysisNoSourceFile THEN "CallsWithoutSourceFile"
    ELSE IF result = AnalysisMultipleSourceFiles THEN "CallsWithMultipleSourceFiles"
    ELSE "CallsForLinking"

\* ------------------------------------------------------------------------
\* The collaborators: the command lines tried, the compiler binary, the
\* preprocessor and the real compiler
\* ------------------------------------------------------------------------

SrcA == <<"a", ".", "c">>
SrcB == <<"b", ".", "c">>
SwC == <<"/", "c">>
SwW == <<"/", "W">>
SwFoZ == <<"/", "F", "o", "z">>
SwTpEmpty == <<"/", "T", "p">>

\* sys.argv[1:] of the invocations of the main flow.
Argvs ==
    { <<SwW, SwC, SrcA>>, <<SwW, SwC, SrcB>>,
      <<SwW, SrcA>>, <<SwW, SwC, SrcA, SrcB>>, <<SwW, SwC, SwTpEmpty>> }

\* The arguments of clcache.py -M the model tries.
MaximumSizes == {2}

\* os.stat(compilerBinary)
CompilerStat == [st_mtime |-> 150, st_size |-> 12]

\* Whether arg is a switch.
IsSwitch(arg) == arg # <<>> /\ arg[1] \in {"/", "-"}

\* The source file the compiler is given by args: the last bare token.
RECURSIVE SourceOf(_)
SourceOf(args) ==
    IF args = <<>> THEN None
    ELSE IF ~IsSwitch(args[Len(args)]) THEN args[Len(args)]
    ELSE SourceOf(SubSeq(args, 1, Len(args) - 1))

\* preprocessor.communicate()[0]: the preprocessed text of the source when the
\* preprocessor succeeds, what it had written (nothing) when it fails.
PreprocessorOutput(ppcmd, ok) ==
    IF ok /\ SourceOf(ppcmd) # None THEN <<SourceOf(ppcmd)[1]>> ELSE <<>>

\* The object file the real compiler writes for a successful compile.
CompiledObject(args) == IF SourceOf(args) = SrcA THEN <<"x">> ELSE <<"y", "y">>

\* The output the real compiler prints (the name of the source, a CR LF).
CompilerOutput(args) ==
    IF SourceOf(args) = None THEN <<>> ELSE <<SourceOf(args)[1], "\r", "\n">>

\* The exit codes of the real compiler the model tries.
ExitCodes == {0, 2}

\* ------------------------------------------------------------------------
\* State
\* ------------------------------------------------------------------------

\* The number of concurrent invocations of the main flow.
NumProcs == 2

Procs == 1..NumProcs

NoProc == 0

VARIABLES
    procs,       \* the state of each invocation of the main flow
    disk,        \* the entry directories of the cache directory
    statsFile,   \* stats.txt
    configFile,  \* config.txt
    lockOwner,   \* the process holding cache.lock, NoProc when it is free
    clCmd,       \* classifier check: the command line
    clRes,       \* classifier check: what analyzeCommandLine returned
    kIn,         \* key check: the two inputs of computeKey
    kEdit,       \* key check: how the second input was made from the first
    kKeys,       \* key check: the two keys
    stExpected,  \* store check: what was last set under each key
    stGot,       \* store check: what the last fetch returned
    ldText,      \* load check: the content of the file, NoFile when missing
    ldOut,       \* load check: what the constructor built from it
    avIn,        \* argument check: sys.argv[1:] of two invocations
    avOut        \* argument check: what the main flow derived from each

vars == <<procs, disk, statsFile, configFile, lockOwner, clCmd, clRes, kIn, kEdit,
          kKeys, stExpected, stGot, ldText, ldOut, avIn, avOut>>

mainVars == <<procs, statsFile, configFile, lockOwner>>
clVars == <<clCmd, clRes>>
keyVars == <<kIn, kEdit, kKeys>>
storeVars == <<stExpected, stGot>>
loadVars == <<ldText, ldOut>>
argvVars == <<avIn, avOut>>
otherVars == <<clVars, keyVars, storeVars, loadVars, argvVars>>

NoAnalysis == AnalysisReturn("none", None, None)

\* An invocation before the main flow starts.
IdleProc ==
    [pc |-> "idle", argv |-> <<>>, cmdLine |-> <<>>, analysis |-> NoAnalysis,
     loaded |-> EmptyDict, stats |-> EmptyDict, dirty |-> FALSE,
     path |-> "none", ppOk |-> TRUE,
     cachekey |-> None, returnCode |-> -1, compilerOutput |-> None,
     objectInfos |-> <<>>, currentSize |-> 0, maximumSize |-> 0,
     outputFileContent |-> None, forwarded |-> None, stdout |-> None, exitCode |-> -1]

InitMain ==
    /\ procs = [p \in Procs |-> IdleProc]
    /\ statsFile = MissingFile
    /\ configFile = MissingFile
    /\ lockOwner = NoProc

InitCl == clCmd = <<>> /\ clRes = NoAnalysis
InitKey == kIn = <<>> /\ kEdit = "none" /\ kKeys = <<>>
NoFetch == [key |-> None, has |-> FALSE, object |-> None, text |-> None]

InitStore == stExpected = <<>> /\ stGot = NoFetch

NoLoad == [kind |-> "none"]
InitLoad == ldText = NoFile /\ ldOut = NoLoad
InitArgv == avIn = <<>> /\ avOut = <<>>

Init == InitMain /\ disk = EmptyStore /\ InitCl /\ InitKey /\ InitStore /\ InitLoad /\ InitArgv

\* ------------------------------------------------------------------------
\* The main flow, one action per step on the shared files
\* ------------------------------------------------------------------------

Set(p, r) == procs' = [procs EXCEPT ![p] = r]

\* What is left of an invocation r after sys.exit(exitCode) with stdout
\* written: its in-memory dictionaries and locals are gone.
Exited(r, pc, stdout, exitCode) ==
    [r EXCEPT !.pc = pc, !.stdout = stdout, !.exitCode = exitCode,
              !.loaded = EmptyDict, !.stats = EmptyDict, !.dirty = FALSE,
              !.objectInfos = <<>>,
              !.currentSize = 0, !.maximumSize = 0]

\* Uncaught exception: the interpreter prints a traceback and exits with 1.
Crash(p) == Exited(procs[p], "crashed", procs[p].stdout, 1)

\* expandCommandLine, analyzeCommandLine, CacheStatistics(cache) and
\* cacheLock(cache), which makes the lock object and does not acquire it; for
\* a classification other than Ok the register call that follows.
Begin(p, argv) ==
    /\ procs[p].pc = "idle"
    /\ \A q \in Procs : q < p => procs[q].pc # "idle"
    /\ LET cmdLine  == expandCommandLine(argv)
           analysis == analyzeCommandLine(cmdLine)
           dict     == LoadDict(statsFile)
           stats    == StatsWithDefaults(dict)
           loaded   == [procs[p] EXCEPT !.argv = argv, !.cmdLine = cmdLine,
                                        !.analysis = analysis,
                                        !.loaded = stats, !.stats = stats,
                                        !.dirty = StatsDirtyAfterInit(dict)]
       IN  IF analysis.result = RaisedIndexError
             THEN Set(p, [Crash(p) EXCEPT !.argv = argv])
           ELSE IF analysis.result # AnalysisOk
             THEN Set(p, [loaded EXCEPT !.stats = Register(stats, CounterOf(analysis.result)),
                                        !.dirty = TRUE, !.path = "forward",
                                        !.pc = "saveStats"])
           ELSE Set(p, [loaded EXCEPT !.pc = "hasEntry"])
    /\ UNCHANGED <<disk, statsFile, configFile, lockOwner, otherVars>>

\* What can become of the preprocessor run of computeKey: it exits with 0,
\* it exits non-zero, or Popen raises because it cannot be started.
PreprocessorOutcomes == {"ok", "failed", "oserror"}

\* cache.computeKey(compiler, cmdLine), cache.hasEntry(cachekey) and the
\* registerCacheHit or registerCacheMiss that follows.  computeKey does not
\* look at the return code of the preprocessor.
HasEntry(p, outcome) ==
    /\ procs[p].pc = "hasEntry"
    /\ LET me  == procs[p]
           pp  == PreprocessorOutput(PreprocessorCommand(me.cmdLine), outcome = "ok")
           key == computeKey(CompilerStat, me.cmdLine, pp)
       IN  IF outcome = "oserror"
             THEN Set(p, [Crash(p) EXCEPT !.ppOk = FALSE])
           ELSE IF hasEntry(disk, key)
             THEN Set(p, [me EXCEPT !.ppOk = (outcome = "ok"), !.cachekey = key,
                                    !.stats = Register(me.stats, "CacheHits"),
                                    !.dirty = TRUE, !.path = "hit", !.pc = "saveStats"])
           ELSE Set(p, [me EXCEPT !.ppOk = (outcome = "ok"), !.cachekey = key,
                                  !.stats = Register(me.stats, "CacheMisses"),
                                  !.dirty = TRUE, !.path = "miss", !.pc = "compile"])
    /\ UNCHANGED <<disk, statsFile, configFile, lockOwner, otherVars>>

\* The miss path when it does not look at the return code.
StoreWhateverReturnCode(returnCode) == "setEntry"

\* if returnCode == 0: the miss path stores the result, else it only saves
\* the statistics.
AfterCompile(returnCode) == IF returnCode = 0 THEN "setEntry" ELSE "saveStats"

\* invokeRealCompiler(compiler, sys.argv[1:], captureOutput=True)
Compile(p, returnCode) ==
    /\ procs[p].pc = "compile"
    /\ LET me == procs[p] IN
       Set(p, [me EXCEPT !.returnCode = returnCode,
                         !.forwarded = me.argv,
                         !.compilerOutput = CompilerOutput(me.argv),
                         !.outputFileContent =
                             IF returnCode = 0 THEN CompiledObject(me.argv) ELSE None,
                         !.pc = AfterCompile(returnCode)])
    /\ UNCHANGED <<disk, statsFile, configFile, lockOwner, otherVars>>

\* The trace statement of the miss path, then setEntry up to its copyfile.
\* "Adding file " + outputFile raises when outputFile is None.
SetEntryCopy(p) ==
    /\ procs[p].pc = "setEntry"
    /\ LET me == procs[p] IN
       IF me.analysis.outputFile = None
         THEN Set(p, Crash(p)) /\ UNCHANGED disk
       ELSE /\ disk' = SetEntryObject(disk, me.cachekey, me.outputFileContent)
            /\ Set(p, [me EXCEPT !.pc = "setEntryOutput"])
    /\ UNCHANGED <<statsFile, configFile, lockOwner, otherVars>>

\* The write of output.txt that ends setEntry (open raises when the entry
\* directory is gone), then registerCacheEntry(os.path.getsize(outputFile)).
SetEntryWrite(p) ==
    /\ procs[p].pc = "setEntryOutput"
    /\ LET me == procs[p] IN
       IF _cacheEntryDir(me.cachekey) \notin DOMAIN disk.dirs
         THEN Set(p, Crash(p)) /\ UNCHANGED disk
       ELSE /\ disk' = SetEntryOutput(disk, me.cachekey, me.compilerOutput)
            /\ Set(p, [me EXCEPT !.stats = registerCacheEntry(me.stats, Len(me.outputFileContent)),
                                 !.pc = "clean"])
    /\ UNCHANGED <<statsFile, configFile, lockOwner, otherVars>>

\* Configuration(cache), cfg.maximumCacheSize() and clean up to its sort.
CleanBegin(p) ==
    /\ procs[p].pc = "clean"
    /\ LET me          == procs[p]
           maximumSize == maximumCacheSize(configFile)
           currentSize == me.stats["CacheSize"]
           infos       == ObjectInfos(disk)
       IN  IF currentSize < maximumSize
             THEN Set(p, [me EXCEPT !.pc = "saveStats"])
           ELSE IF infos = <<>>
             THEN Set(p, [me EXCEPT !.stats = setCacheSize(me.stats, currentSize),
                                    !.pc = "saveStats"])
           ELSE Set(p, [me EXCEPT !.objectInfos = infos, !.currentSize = currentSize,
                                  !.maximumSize = maximumSize, !.pc = "cleanLoop"])
    /\ UNCHANGED <<disk, statsFile, configFile, lockOwner, otherVars>>

\* One pass of the loop of clean: rmtree (which raises when another process
\* removed the directory), the subtraction, the break; after the loop
\* stats.setCacheSize(currentSize).
CleanLoop(p) ==
    /\ procs[p].pc = "cleanLoop"
    /\ LET me          == procs[p]
           info        == me.objectInfos[1]
           currentSize == me.currentSize - info.size
           rest        == Tail(me.objectInfos)
       IN  IF info.path \notin DOMAIN disk.dirs
             THEN Set(p, Crash(p)) /\ UNCHANGED disk
           ELSE /\ disk' = RemoveTree(disk, info.path)
                /\ IF currentSize < me.maximumSize \/ rest = <<>>
                     THEN Set(p, [me EXCEPT !.stats = setCacheSize(me.stats, currentSize),
                                            !.currentSize = currentSize,
                                            !.objectInfos = <<>>, !.pc = "saveStats"])
                   ELSE Set(p, [me EXCEPT !.currentSize = currentSize,
                                          !.objectInfos = rest])
    /\ UNCHANGED <<statsFile, configFile, lockOwner, otherVars>>

\* stats.save(); on the miss path the sys.stdout.write and sys.exit after it.
SaveStats(p) ==
    /\ procs[p].pc = "saveStats"
    /\ statsFile' = IF procs[p].dirty THEN DumpDict(procs[p].stats) ELSE statsFile
    /\ LET me == procs[p] IN
       IF me.path = "miss"
         THEN Set(p, Exited(me, "done", me.compilerOutput, me.returnCode))
       ELSE Set(p, [me EXCEPT !.pc = me.path])
    /\ UNCHANGED <<disk, configFile, lockOwner, otherVars>>

\* sys.exit(invokeRealCompiler(compiler, sys.argv[1:])[0])
Forward(p, returnCode) ==
    /\ procs[p].pc = "forward"
    /\ Set(p, Exited([procs[p] EXCEPT !.returnCode = returnCode,
                                       !.forwarded = procs[p].argv], "done",
                      procs[p].stdout, returnCode))
    /\ UNCHANGED <<disk, statsFile, configFile, lockOwner, otherVars>>

\* The trace statement of the hit path ("output file " + outputFile raises
\* when outputFile is None), then copyfile(cachedObjectName, outputFile),
\* which raises when the object is gone.  The file system may or may not
\* update the access time of the object read.
HitCopy(p, touched) ==
    /\ procs[p].pc = "hit"
    /\ LET me == procs[p] IN
       IF me.analysis.outputFile = None \/ ~hasEntry(disk, me.cachekey)
         THEN Set(p, Crash(p)) /\ UNCHANGED disk
       ELSE /\ Set(p, [me EXCEPT !.outputFileContent = cachedObject(disk, me.cachekey),
                                 !.pc = "hitOutput"])
            /\ disk' = IF touched
                         THEN [disk EXCEPT !.atime = Touch(@, _cacheEntryDir(me.cachekey))]
                       ELSE disk
    /\ UNCHANGED <<statsFile, configFile, lockOwner, otherVars>>

\* sys.stdout.write(cache.cachedCompilerOutput(cachekey)); sys.exit(0)
HitOutput(p) ==
    /\ procs[p].pc = "hitOutput"
    /\ LET me   == procs[p]
           path == _cacheEntryDir(me.cachekey)
       IN  IF path \notin DOMAIN disk.dirs \/ disk.dirs[path].output = None
             THEN Set(p, Crash(p))
           ELSE Set(p, Exited(me, "done", cachedCompilerOutput(disk, me.cachekey), 0))
    /\ UNCHANGED <<disk, statsFile, configFile, lockOwner, otherVars>>

\* clcache.py -M size, a whole invocation: Configuration(cache),
\* setMaximumCacheSize(int(sys.argv[2])), cfg.save().
SetMaximum(size) ==
    /\ maximumCacheSize(configFile) # size
    /\ configFile' = DumpDict([k \in {"MaximumCacheSize"} |-> size])
    /\ UNCHANGED <<procs, disk, statsFile, lockOwner, otherVars>>

Next ==
    \/ \E p \in Procs, argv \in Argvs : Begin(p, argv)
    \/ \E p \in Procs, outcome \in PreprocessorOutcomes : HasEntry(p, outcome)
    \/ \E p \in Procs, returnCode \in ExitCodes : Compile(p, returnCode)
    \/ \E p \in Procs : SetEntryCopy(p)
    \/ \E p \in Procs : SetEntryWrite(p)
    \/ \E p \in Procs : CleanBegin(p)
    \/ \E p \in Procs : CleanLoop(p)
    \/ \E p \in Procs : SaveStats(p)
    \/ \E p \in Procs, returnCode \in ExitCodes : Forward(p, returnCode)
    \/ \E p \in Procs, touched \in BOOLEAN : HitCopy(p, touched)
    \/ \E p \in Procs : HitOutput(p)
    \/ \E size \in MaximumSizes : SetMaximum(size)

Spec == Init /\ [][Next]_vars

\* ------------------------------------------------------------------------
\* The main flow with one invocation at a time: an invocation starts when
\* every earlier one has exited
\* ------------------------------------------------------------------------

\* No invocation is running.
Quiet == \A q \in Procs : procs[q].pc \in {"idle", "done", "crashed"}

\* The arguments of clcache.py -M tried between the invocations.
SeqMaximumSizes == {2, 3}

BeginAlone(p, argv) == Quiet /\ Begin(p, argv)

SetMaximumAlone(size) == Quiet /\ SetMaximum(size)

NextSequential ==
    \/ \E p \in Procs, argv \in Argvs : BeginAlone(p, argv)
    \/ \E p \in Procs, outcome \in PreprocessorOutcomes : HasEntry(p, outcome)
    \/ \E p \in Procs, returnCode \in ExitCodes : Compile(p, returnCode)
    \/ \E p \in Procs : SetEntryCopy(p)
    \/ \E p \in Procs : SetEntryWrite(p)
    \/ \E p \in Procs : CleanBegin(p)
    \/ \E p \in Procs : CleanLoop(p)
    \/ \E p \in Procs : SaveStats(p)
    \/ \E p \in Procs, returnCode \in ExitCodes : Forward(p, returnCode)
    \/ \E p \in Procs, touched \in BOOLEAN : HitCopy(p, touched)
    \/ \E p \in Procs : HitOutput(p)
    \/ \E size \in SeqMaximumSizes : SetMaximumAlone(size)

SpecSequential == Init /\ [][NextSequential]_vars

\* ------------------------------------------------------------------------
\* analyzeCommandLine applied to the command lines of a bounded set
\* ------------------------------------------------------------------------

\* The most arguments after the program name.
MaxArgs == 3

SwLink == <<"/", "l", "i", "n", "k">>

\* The tokens the command lines are made of: compile-only and link switches
\* in both spellings, sources, a response-file token, output and source path
\* switches, a lone slash, the empty token, and another switch.
ClTokens ==
    { SwC, <<"-", "c">>, SwLink, <<"-", "l", "i", "n", "k">>, SrcA, SrcB, <<"@", "r">>,
      SwFoZ, <<"/", "T", "p", "a", ".", "c">>, SwTpEmpty, <<"/">>, <<>>, SwW }

Program == <<"c", "l">>

ClCommandLines ==
    UNION { {<<Program>> \o args : args \in [1..n -> ClTokens]} : n \in 0..MaxArgs }

InitAnalyze ==
    /\ InitMain /\ disk = EmptyStore /\ InitKey /\ InitStore /\ InitLoad /\ InitArgv
    /\ clCmd \in ClCommandLines
    /\ clRes = NoAnalysis

Analyze ==
    /\ clRes = NoAnalysis
    /\ clRes' = analyzeCommandLine(clCmd)
    /\ UNCHANGED <<clCmd, mainVars, disk, keyVars, storeVars, loadVars, argvVars>>

NextAnalyze == Analyze

SpecAnalyze == InitAnalyze /\ [][NextAnalyze]_vars

\* ------------------------------------------------------------------------
\* computeKey applied to two inputs, the second an edit of the first
\* ------------------------------------------------------------------------

\* The most arguments after the program name in the first input.
MaxKeyArgs == 2

SwO2 == <<"/", "O", "2">>
SwOd == <<"/", "O", "d">>
SwDX == <<"/", "D", "X">>

\* The tokens of the first input.
KeyTokens == { SwC, SrcA, SwO2, SwFoZ, SwDX }

\* Output-path and preprocessor-only switches, one for each entry of the
\* strip list, in both spellings of the switch character for some.
StrippedSwitches ==
    { SwFoZ, <<"/", "F", "o", "y">>, <<"-", "F", "o", "z">>, SwDX, <<"-", "D", "X">>,
      <<"/", "D", "Y">>, <<"/", "A", "I", "d">>, <<"/", "C">>, <<"/", "E">>, <<"/", "P">>,
      <<"/", "F", "I", "h">>, <<"/", "u">>, <<"/", "X">>, <<"/", "F", "U", "h">>,
      <<"/", "E", "P">>, <<"/", "F", "x">>, <<"/", "U", "X">>, <<"/", "I", "d">> }

\* Switches that steer code generation or diagnostics, and sources.
OtherTokens == { SwO2, SwOd, SwW, <<"/", "Z", "i">>, SrcA, SrcB }

\* os.stat of the compiler binaries tried.
KeyStats == { [st_mtime |-> m, st_size |-> n] : m \in {150, 151}, n \in {2, 12} }

\* The preprocessed sources tried.
KeySources == { <<>>, <<"a">>, <<"b">> }

KeyCommandLines ==
    UNION { {<<Program>> \o args : args \in [1..n -> KeyTokens]} : n \in 0..MaxKeyArgs }

KeyInput(stat, cmd, pp) == [stat |-> stat, commandLine |-> cmd, preprocessed |-> pp]

InitKeys ==
    /\ InitMain /\ disk = EmptyStore /\ InitCl /\ InitStore /\ InitLoad /\ InitArgv
    /\ \E stat \in KeyStats, cmd \in KeyCommandLines, pp \in KeySources :
         kIn = <<KeyInput(stat, cmd, pp), KeyInput(stat, cmd, pp)>>
    /\ kEdit = "none"
    /\ kKeys = <<>>

InsertAt(seq, i, x) == SubSeq(seq, 1, i - 1) \o <<x>> \o SubSeq(seq, i, Len(seq))
RemoveAt(seq, i) == SubSeq(seq, 1, i - 1) \o SubSeq(seq, i + 1, Len(seq))
ReplaceAt(seq, i, x) == [seq EXCEPT ![i] = x]

\* The second command line becomes cmd, an edit of the given kind.
Edited(cmd, kind) ==
    /\ kEdit = "none" /\ kKeys = <<>>
    /\ cmd # kIn[2].commandLine
    /\ kIn' = [kIn EXCEPT ![2].commandLine = cmd]
    /\ kEdit' = kind
    /\ UNCHANGED <<kKeys, mainVars, disk, clVars, storeVars, loadVars, argvVars>>

\* A switch of the given set is added to the second command line, after the
\* program name.
AddSwitch(i, sw, kind) ==
    /\ i \in 2..Len(kIn[2].commandLine) + 1
    /\ Edited(InsertAt(kIn[2].commandLine, i, sw), kind)

\* A switch of the given set is removed from the second command line.
RemoveSwitch(i, set, kind) ==
    /\ i \in 2..Len(kIn[2].commandLine)
    /\ kIn[2].commandLine[i] \in set
    /\ Edited(RemoveAt(kIn[2].commandLine, i), kind)

\* A switch of the given set is changed into another one of the set.
ChangeSwitch(i, sw, set, kind) ==
    /\ i \in 2..Len(kIn[2].commandLine)
    /\ kIn[2].commandLine[i] \in set
    /\ Edited(ReplaceAt(kIn[2].commandLine, i, sw), kind)

\* Two neighbours among the arguments that stay in the key change places.
SwapKept(i) ==
    /\ i \in 2..Len(kIn[2].commandLine) - 1
    /\ KeptByNormalize(kIn[2].commandLine[i])
    /\ KeptByNormalize(kIn[2].commandLine[i + 1])
    /\ Edited([kIn[2].commandLine EXCEPT ![i] = kIn[2].commandLine[i + 1],
                                         ![i + 1] = kIn[2].commandLine[i]], "other")

\* The source has another preprocessed text.
ChangeSource(pp) ==
    /\ kEdit = "none" /\ kKeys = <<>>
    /\ pp # kIn[2].preprocessed
    /\ kIn' = [kIn EXCEPT ![2].preprocessed = pp]
    /\ kEdit' = "other"
    /\ UNCHANGED <<kKeys, mainVars, disk, clVars, storeVars, loadVars, argvVars>>

\* The compiler binary is replaced: another size, modification time or both.
ChangeBinary(stat) ==
    /\ kEdit = "none" /\ kKeys = <<>>
    /\ stat # kIn[2].stat
    /\ kIn' = [kIn EXCEPT ![2].stat = stat]
    /\ kEdit' = "other"
    /\ UNCHANGED <<kKeys, mainVars, disk, clVars, storeVars, loadVars, argvVars>>

ComputeKeys ==
    /\ kKeys = <<>>
    /\ kKeys' = <<computeKey(kIn[1].stat, kIn[1].commandLine, kIn[1].preprocessed),
                  computeKey(kIn[2].stat, kIn[2].commandLine, kIn[2].preprocessed)>>
    /\ UNCHANGED <<kIn, kEdit, mainVars, disk, clVars, storeVars, loadVars, argvVars>>

KeyPositions == 2..MaxKeyArgs + 2

NextKeys ==
    \/ \E i \in KeyPositions, sw \in StrippedSwitches : AddSwitch(i, sw, "strip")
    \/ \E i \in KeyPositions : RemoveSwitch(i, StrippedSwitches, "strip")
    \/ \E i \in KeyPositions, sw \in StrippedSwitches :
         ChangeSwitch(i, sw, StrippedSwitches, "strip")
    \/ \E i \in KeyPositions, sw \in OtherTokens : AddSwitch(i, sw, "other")
    \/ \E i \in KeyPositions : RemoveSwitch(i, OtherTokens, "other")
    \/ \E i \in KeyPositions, sw \in OtherTokens : ChangeSwitch(i, sw, OtherTokens, "other")
    \/ \E i \in KeyPositions : SwapKept(i)
    \/ \E pp \in KeySources : ChangeSource(pp)
    \/ \E stat \in KeyStats : ChangeBinary(stat)
    \/ ComputeKeys

SpecKeys == InitKeys /\ [][NextKeys]_vars

\* ------------------------------------------------------------------------
\* The store used by one process at a time: setEntry and the reads of the
\* hit path, with no eviction
\* ------------------------------------------------------------------------

\* Keys, two of them in the same shard directory.
StoreKeys == { <<"a", "b", "1">>, <<"a", "b", "2">>, <<"c", "d", "1">> }

StoreObjects == { <<"x">>, <<"y", "y">> }

StoreTexts == { <<"a", "\n">>, <<"\r", "\n">>, <<"\r", "a">> }

InitStoreOps ==
    /\ InitMain /\ disk = EmptyStore /\ InitCl /\ InitKey /\ InitLoad /\ InitArgv
    /\ stExpected = <<>>
    /\ stGot = NoFetch

\* cache.setEntry(key, objectFileName, compilerOutput), the file holding
\* object.
StoreSet(key, object, text) ==
    /\ disk' = setEntry(disk, key, object, text)
    /\ stExpected' = [k \in DOMAIN stExpected \cup {key} |->
                        IF k = key THEN [object |-> object, text |-> text]
                        ELSE stExpected[k]]
    /\ stGot' = NoFetch
    /\ UNCHANGED <<mainVars, clVars, keyVars, loadVars, argvVars>>

\* cache.hasEntry(key) and, when it is true, the read of the object and
\* cache.cachedCompilerOutput(key).
StoreFetch(key) ==
    /\ stGot = NoFetch
    /\ stGot' = IF hasEntry(disk, key)
                  THEN [key |-> key, has |-> TRUE, object |-> cachedObject(disk, key),
                        text |-> cachedCompilerOutput(disk, key)]
                ELSE [key |-> key, has |-> FALSE, object |-> None, text |-> None]
    /\ UNCHANGED <<disk, stExpected, mainVars, clVars, keyVars, loadVars, argvVars>>

NextStoreOps ==
    \/ \E key \in StoreKeys, object \in StoreObjects, text \in StoreTexts :
         StoreSet(key, object, text)
    \/ \E key \in StoreKeys : StoreFetch(key)

SpecStoreOps == InitStoreOps /\ [][NextStoreOps]_vars

\* ------------------------------------------------------------------------
\* CacheStatistics and Configuration constructed on whatever a writer of
\* stats.txt or config.txt can leave behind
\* ------------------------------------------------------------------------

\* The counter values of the documents written.
LoadCounterValues == {0, 7, 12}

\* Statistics documents a process saves.
StatsDocs ==
    { [k \in StatsKeys |-> IF k = "CacheHits" THEN h
                           ELSE IF k = "CacheSize" THEN n ELSE 0] :
        h \in LoadCounterValues, n \in LoadCounterValues }

\* Configuration documents clcache.py -M saves.
ConfigDocs == { [k \in {"MaximumCacheSize"} |-> m] : m \in {2, 300} }

\* What is on disk when the writer is interrupted: any leading part.
Prefixes(text) == { SubSeq(text, 1, n) : n \in 0..Len(text) }

\* What is on disk when two writers have both opened (truncated) the file and
\* then written, the writer of second last: its text over that of first.
Overlay(first, second) == second \o SubSeq(first, Len(second) + 1, Len(first))

Overlays(docs) == { Overlay(JsonDump(a), JsonDump(b)) : a \in docs, b \in docs }

CompleteTexts == { JsonDump(d) : d \in StatsDocs \cup ConfigDocs }

LeftBehind ==
    {NoFile} \cup UNION { Prefixes(t) : t \in CompleteTexts }
             \cup Overlays(StatsDocs) \cup Overlays(ConfigDocs)

InitLoadFrom ==
    /\ InitMain /\ disk = EmptyStore /\ InitCl /\ InitKey /\ InitStore /\ InitArgv
    /\ ldText \in LeftBehind
    /\ ldOut = NoLoad

\* CacheStatistics(cache): the PersistentJSONDict, then the defaults.
LoadStatistics ==
    /\ ldOut = NoLoad
    /\ LET dict == LoadDict(FileOf(ldText)) IN
       ldOut' = [kind |-> "stats", dict |-> dict, dirty |-> FALSE,
                 counters |-> StatsWithDefaults(dict),
                 dirtyAfterDefaults |-> StatsDirtyAfterInit(dict)]
    /\ UNCHANGED <<ldText, mainVars, disk, clVars, keyVars, storeVars, argvVars>>

\* Configuration(cache) and maximumCacheSize(): the PersistentJSONDict, then
\* the default.
LoadConfiguration ==
    /\ ldOut = NoLoad
    /\ LET dict == LoadDict(FileOf(ldText)) IN
       ldOut' = [kind |-> "config", dict |-> dict, dirty |-> FALSE,
                 maximum |-> maximumCacheSize(FileOf(ldText))]
    /\ UNCHANGED <<ldText, mainVars, disk, clVars, keyVars, storeVars, argvVars>>

NextLoad == LoadStatistics \/ LoadConfiguration

SpecLoad == InitLoadFrom /\ [][NextLoad]_vars

\* ------------------------------------------------------------------------
\* What the main flow derives from sys.argv[1:]: the expanded command line,
\* its classification, what the preprocessor is given, the key, and what the
\* real compiler is given.  Two invocations, the second with one argument of
\* the first replaced.
\* ------------------------------------------------------------------------

\* The most arguments of an invocation.
MaxArgvLen == 3

ArgvTokens == { SwC, SwO2, SwOd, SwDX, SrcA }

ArgvLists == UNION { [1..n -> ArgvTokens] : n \in 1..MaxArgvLen }

InitArgvPairs ==
    /\ InitMain /\ disk = EmptyStore /\ InitCl /\ InitKey /\ InitStore /\ InitLoad
    /\ \E argv \in ArgvLists, i \in 1..MaxArgvLen, tok \in ArgvTokens :
         i <= Len(argv) /\ avIn = <<argv, ReplaceAt(argv, i, tok)>>
    /\ avOut = <<>>

\* cmdLine = expandCommandLine(sys.argv[1:]), analyzeCommandLine(cmdLine),
\* for Ok cache.computeKey(compiler, cmdLine) with the preprocessor run it
\* makes, and invokeRealCompiler(compiler, sys.argv[1:]).
MainFlowDerives(argv) ==
    LET cmdLine  == expandCommandLine(argv)
        analysis == analyzeCommandLine(cmdLine)
        ok       == analysis.result = AnalysisOk
        pp       == PreprocessorOutput(PreprocessorCommand(cmdLine), TRUE)
    IN  [cmdLine |-> cmdLine, analysis |-> analysis, forwarded |-> argv,
         preprocessed |-> IF ok THEN pp ELSE None,
         cachekey |-> IF ok THEN computeKey(CompilerStat, cmdLine, pp) ELSE None]

DeriveFromArgv ==
    /\ avOut = <<>>
    /\ avOut' = <<MainFlowDerives(avIn[1]), MainFlowDerives(avIn[2])>>
    /\ UNCHANGED <<avIn, mainVars, disk, clVars, keyVars, storeVars, loadVars>>

NextArgv == DeriveFromArgv

SpecArgv == InitArgvPairs /\ [][NextArgv]_vars

\* ------------------------------------------------------------------------
\* Properties
\* ------------------------------------------------------------------------

\* Every process ran the miss path for the key of process 1, compiled with
\* exit code 0 and has exited.
AllMissedSameKey ==
    \A p \in Procs : /\ procs[p].pc = "done"
                     /\ procs[p].path = "miss"
                     /\ procs[p].returnCode = 0
                     /\ procs[p].cachekey = procs[1].cachekey

\* C1: when all NumProcs processes have run a miss-then-insert for the same
\* key (under the default maximum cache size), the key has one fetchable
\* entry, object and output.txt both present, and the statistics document
\* holds CacheHits + CacheMisses = NumProcs.
C1_OneEntryAndCountersAddUp ==
    (AllMissedSameKey /\ configFile = MissingFile) =>
        /\ hasEntry(disk, procs[1].cachekey)
        /\ disk.dirs[_cacheEntryDir(procs[1].cachekey)].output # None
        /\ statsFile.state = "ok"
        /\ statsFile.doc["CacheHits"] + statsFile.doc["CacheMisses"] = NumProcs

\* A process is between its load of stats.txt and the end of its save.
InCriticalSection(p) ==
    procs[p].pc \in {"hasEntry", "compile", "setEntry", "setEntryOutput", "clean",
                     "cleanLoop", "saveStats"}

\* C2: a process between its load and its save of stats.txt holds cache.lock,
\* and at most one process is between its load and its save.
C2_LockHeldThroughCriticalSection ==
    /\ \A p \in Procs : InCriticalSection(p) => lockOwner = p
    /\ Cardinality({p \in Procs : InCriticalSection(p)}) <= 1

\* The maximum size the call of clean that process p is in works with.
MaximumOfClean(p) ==
    IF procs[p].pc = "clean" THEN maximumCacheSize(configFile) ELSE procs[p].maximumSize

\* C3: when a call of clean returns and an object smaller than the maximum
\* was on disk, the objects left on disk total at most the maximum and the
\* CacheSize counter of the caller equals that total.
C3_CleanBoundsAndMeasuresSize ==
    [][\A p \in Procs :
         (/\ procs[p].pc \in {"clean", "cleanLoop"}
          /\ procs'[p].pc = "saveStats"
          /\ \E path \in DOMAIN disk.dirs :
               ObjectExists(disk, path) /\ ObjectSize(disk, path) < MaximumOfClean(p))
         => /\ DiskSize(disk') <= MaximumOfClean(p)
            /\ procs'[p].stats["CacheSize"] = DiskSize(disk')]_vars

\* C4: two command lines that differ only in output-path or preprocessor-only
\* switches after the program name (one added, removed or changed), with the
\* same binary and preprocessed source, get the same key; so do two unchanged
\* inputs.
C4_StrippedSwitchesKeepKey ==
    (kKeys # <<>> /\ kEdit \in {"none", "strip"}) => kKeys[1] = kKeys[2]

C4_Witness ==
    /\ kKeys # <<>> /\ kEdit = "strip"
    /\ kIn[1].commandLine # kIn[2].commandLine
    /\ kKeys[1] = kKeys[2]

\* C5: two inputs that differ in a switch that stays in the key (its
\* presence, value or position), in the preprocessed source or in the size or
\* modification time of the binary get different keys.
C5_DifferentInputsDifferentKeys ==
    (kKeys # <<>> /\ kEdit = "other") => kKeys[1] # kKeys[2]

\* C6: every step of a process whose compile exited non-zero leaves the
\* entries alone, ends the process with the compiler's output on stdout and
\* the compiler's exit code, and saves the CacheEntries and CacheSize it had
\* loaded; an entry is created or written only by a process whose compile
\* exited with 0; the hit path exits with 0.
C6_FailedCompileStoresNothing ==
    [][\A p \in Procs :
         /\ (procs[p].path = "miss" /\ procs[p].returnCode > 0 /\ procs'[p] # procs[p])
            => /\ disk' = disk
               /\ procs'[p].pc = "done"
               /\ procs'[p].stdout = procs[p].compilerOutput
               /\ procs'[p].exitCode = procs[p].returnCode
               /\ statsFile'.doc["CacheEntries"] = procs[p].loaded["CacheEntries"]
               /\ statsFile'.doc["CacheSize"] = procs[p].loaded["CacheSize"]
         /\ (/\ procs'[p] # procs[p]
             /\ \E path \in DOMAIN disk'.dirs :
                  path \notin DOMAIN disk.dirs \/ disk'.dirs[path] # disk.dirs[path])
            => procs[p].returnCode = 0
         /\ (procs[p].path = "hit" /\ procs'[p].pc = "done") => procs'[p].exitCode = 0]_vars

C6_Witness ==
    \E p \in Procs : /\ procs[p].pc = "done"
                     /\ procs[p].path = "miss"
                     /\ procs[p].returnCode > 0
                     /\ procs[p].exitCode = procs[p].returnCode
                     /\ procs[p].stdout = procs[p].compilerOutput
                     /\ DOMAIN disk.dirs # {}

\* C7: a process whose preprocessor run failed is not served a hit and does
\* not call setEntry.
C7_NoCacheUseAfterFailedPreprocess ==
    \A p \in Procs :
        ~procs[p].ppOk
        => /\ procs[p].path # "hit"
           /\ procs[p].pc \notin {"setEntryOutput", "clean", "cleanLoop"}

\* C8: a fetch of a key returns the object and the text of the last setEntry
\* on that key, whatever was set on other keys since, and finds no entry for
\* a key never set.
C8_RoundTrip ==
    stGot # NoFetch =>
        IF stGot.key \in DOMAIN stExpected
          THEN /\ stGot.has
               /\ stGot.object = stExpected[stGot.key].object
               /\ stGot.text = stExpected[stGot.key].text
        ELSE ~stGot.has

C8_Witness ==
    /\ stGot.has
    /\ stGot.text = <<"\r", "\n">>
    /\ \E k \in DOMAIN stExpected : k # stGot.key /\ Slice(k, 0, 2) = Slice(stGot.key, 0, 2)

\* C9: when every process has run the insert sequence of the miss path for
\* the same key and content, the CacheSize in stats.txt equals the total size
\* of the objects on disk.
C9_SizeCounterConsistentAfterRepeatedInsert ==
    (NumProcs > 1 /\ AllMissedSameKey /\ statsFile.state = "ok")
        => statsFile.doc["CacheSize"] = DiskSize(disk)

\* C10: a command line with a /link or -link switch after the program name,
\* when analyzeCommandLine returns for it, is classified CalledForLink.
C10_LinkSwitchAnywhere ==
    (/\ clRes # NoAnalysis
     /\ clRes.result # RaisedIndexError
     /\ \E i \in 2..Len(clCmd) : clCmd[i] \in {SwLink, <<"-", "l", "i", "n", "k">>})
    => clRes.result = AnalysisCalledForLink

\* The positions after the program name of the classified command line.
ClPositions == 2..Len(clCmd)

\* A token that names a source file: a bare token, or a /Tp or /Tc switch
\* with a path.
NamesSource(tok) ==
    \/ tok # <<>> /\ tok[1] \notin {"/", "-", "@"}
    \/ IsSwitch(tok) /\ Len(tok) > 3 /\ Slice(tok, 1, 3) \in {<<"T", "p">>, <<"T", "c">>}

\* A /Tp or /Tc switch with an empty path.
EmptySourcePath(tok) ==
    IsSwitch(tok) /\ Len(tok) = 3 /\ Slice(tok, 1, 3) \in {<<"T", "p">>, <<"T", "c">>}

\* The command line classified holds a compile-only switch, no link switch
\* and no response-file token, and analyzeCommandLine returned for it.
CompileOnlyCommandLine ==
    /\ clRes # NoAnalysis
    /\ clRes.result # RaisedIndexError
    /\ \E i \in ClPositions : clCmd[i] \in {SwC, <<"-", "c">>}
    /\ \A i \in ClPositions :
         /\ clCmd[i] \notin {SwLink, <<"-", "l", "i", "n", "k">>}
         /\ ~(clCmd[i] # <<>> /\ clCmd[i][1] = "@")

\* C11: for a command line with a compile-only switch and no link switch,
\* two or more tokens naming a source file (bare tokens, /Tp or /Tc switches,
\* in any order) give MultipleSourceFiles, and an empty source path with no
\* source named gives NoSourceFile.
C11_ExactlyOneSourceAccepted ==
    CompileOnlyCommandLine =>
        /\ Cardinality({i \in ClPositions : NamesSource(clCmd[i])}) >= 2
             => clRes.result = AnalysisMultipleSourceFiles
        /\ (/\ \A i \in ClPositions : ~NamesSource(clCmd[i])
            /\ \E i \in ClPositions : EmptySourcePath(clCmd[i]))
             => clRes.result = AnalysisNoSourceFile

\* C18: when analyzeCommandLine returns Ok, the source file and the output
\* file it returns are non-empty strings.
C18_OkHasSourceAndOutput ==
    (clRes # NoAnalysis /\ clRes.result = AnalysisOk)
        => Truthy(clRes.sourceFile) /\ Truthy(clRes.outputFile)

\* C12: an invocation classified NoSourceFile, MultipleSourceFiles or
\* CalledForLink takes the forwarding path; every step of it leaves the
\* entries alone and derives no key; its save writes the document it loaded
\* with the one counter of its classification one higher and every other
\* counter as loaded; it then hands sys.argv[1:] to the real compiler and
\* exits with the compiler's exit code.
C12_NotOkForwardsAndCountsOnce ==
    [][\A p \in Procs :
         /\ (procs[p].pc = "idle" /\ procs'[p].pc # "idle"
              /\ procs'[p].analysis.result \in {AnalysisNoSourceFile,
                                                AnalysisMultipleSourceFiles,
                                                AnalysisCalledForLink})
            => procs'[p].path = "forward" /\ procs'[p].pc = "saveStats"
         /\ (procs[p].path = "forward" /\ procs'[p] # procs[p])
            => /\ disk' = disk
               /\ procs'[p].cachekey = None
               /\ procs[p].pc = "saveStats"
                    => /\ procs'[p].pc = "forward"
                       /\ statsFile'.state = "ok"
                       /\ \A k \in StatsKeys :
                            statsFile'.doc[k] =
                              IF \/ k = "CallsWithoutSourceFile"
                                      /\ procs[p].analysis.result = AnalysisNoSourceFile
                                 \/ k = "CallsWithMultipleSourceFiles"
                                      /\ procs[p].analysis.result = AnalysisMultipleSourceFiles
                                 \/ k = "CallsForLinking"
                                      /\ procs[p].analysis.result = AnalysisCalledForLink
                                THEN procs[p].loaded[k] + 1
                              ELSE procs[p].loaded[k]
               /\ procs[p].pc = "forward"
                    => /\ procs'[p].pc = "done"
                       /\ procs'[p].forwarded = procs[p].argv
                       /\ procs'[p].exitCode = procs'[p].returnCode
                       /\ statsFile' = statsFile]_vars

C12_Witness ==
    \E p \in Procs :
        /\ procs[p].pc = "done" /\ procs[p].path = "forward"
        /\ procs[p].analysis.result = AnalysisMultipleSourceFiles
        /\ procs[p].exitCode = 2
        /\ procs[p].forwarded = procs[p].argv
        /\ statsFile.state = "ok"
        /\ statsFile.doc["CallsWithMultipleSourceFiles"] = 1
        /\ statsFile.doc["CacheEntries"] = 1
        /\ DOMAIN disk.dirs # {}

\* C13: a file that is missing or holds anything but a complete document
\* gives a PersistentJSONDict with an empty document and the dirty flag
\* false; CacheStatistics on it has every counter at 0 and Configuration
\* has MaximumCacheSize at its default.
C13_MalformedLoadsAsEmpty ==
    (ldOut # NoLoad /\ ldText \notin CompleteTexts)
        => /\ ldOut.dict = EmptyDict
           /\ ~ldOut.dirty
           /\ ldOut.kind = "stats" => \A k \in StatsKeys : ldOut.counters[k] = 0
           /\ ldOut.kind = "config" => ldOut.maximum = DefaultMaximumCacheSize

C13_Witness ==
    /\ ldOut.kind = "stats"
    /\ ldText # NoFile /\ ldText \notin CompleteTexts
    /\ "CacheHits" \in DOMAIN JsonLoad(ldText).doc
    /\ JsonLoad(ldText).doc["CacheHits"] = 12
    /\ ldOut.counters["CacheHits"] = 0

\* C14: a save of stats.txt never lowers a counter other than CacheSize.
C14_CountersMonotonic ==
    [][(statsFile.state = "ok" /\ statsFile'.state = "ok")
         => \A k \in StatsKeys \ {"CacheSize"} : statsFile'.doc[k] >= statsFile.doc[k]]_vars

\* The entry directories on disk.
EntryDirs == DOMAIN disk.dirs

\* C15: a process that found hasEntry(key) true completes the hit path: its
\* copy of the object and its read of output.txt succeed.
C15_HitFindsBothBlobs ==
    \A p \in Procs : procs[p].path = "hit" => procs[p].pc # "crashed"

\* C16: when a call of clean returns after removing an entry, no entry left
\* on disk was accessed before the entry removed last.
C16_EvictsLeastRecentlyUsed ==
    [][\A p \in Procs :
         (procs[p].pc = "cleanLoop" /\ procs'[p].pc = "saveStats")
         => \A i \in 1..Len(disk.atime) :
              disk.atime[i] = procs[p].objectInfos[1].path
              => \A j \in 1..(i - 1) : disk.atime[j] \notin DOMAIN disk'.dirs]_vars

\* C19: with one invocation at a time, whenever no invocation is running the
\* CacheEntries counter of stats.txt equals the number of entry directories.
C19_EntryCountMatchesDisk ==
    Quiet => Cardinality(EntryDirs) =
               (IF statsFile.state = "ok" THEN statsFile.doc["CacheEntries"] ELSE 0)

\* C20: with one invocation at a time, a process that compiled with exit
\* code 0 an object smaller than the maximum cache size leaves its entry in
\* the cache when it exits.
C20_InsertedEntrySurvivesClean ==
    [][\A p \in Procs :
         (/\ procs[p].pc = "saveStats" /\ procs[p].path = "miss"
          /\ procs[p].returnCode = 0
          /\ procs'[p].pc = "done"
          /\ Len(procs[p].outputFileContent) < maximumCacheSize(configFile))
         => hasEntry(disk', procs[p].cachekey)]_vars

\* A switch that is neither the compile-only switch nor on the strip list.
CodegenSwitch(tok) ==
    IsSwitch(tok) /\ KeptByNormalize(tok) /\ tok \notin {SwC, <<"-", "c">>}

\* C17: two invocations, both classified Ok, with the same preprocessed
\* output and argument lists that differ in one switch that is not on the
\* strip list, at any position (the first included), get different keys; and
\* an invocation whose first argument is the compile-only switch, and which
\* has no link switch, is not classified CalledForLink.
C17_EveryArgumentCounts ==
    avOut # <<>> =>
        /\ (/\ avIn[1] # avIn[2]
            /\ \A i \in 1..Len(avIn[1]) :
                 avIn[1][i] # avIn[2][i]
                 => CodegenSwitch(avIn[1][i]) /\ CodegenSwitch(avIn[2][i])
            /\ avOut[1].analysis.result = AnalysisOk
            /\ avOut[2].analysis.result = AnalysisOk
            /\ avOut[1].preprocessed = avOut[2].preprocessed)
           => avOut[1].cachekey # avOut[2].cachekey
        /\ \A n \in 1..2 :
             avIn[n][1] \in {SwC, <<"-", "c">>}
             => avOut[n].analysis.result # AnalysisCalledForLink

====
